---- MODULE Spec2Model ----
(***************************************************************************)
(* Model of the mikrofuzz fuzzy search library (src/src/index.ts and       *)
(* src/src/normalize.ts).                                                  *)
(*                                                                         *)
(* A JavaScript string is a sequence of one-character strings.  All        *)
(* indices are 0-based, as in the source.  A score is kept in tenths       *)
(* (0.1 is 1, 0.5 is 5, 2 is 20), so that the arithmetic is exact.         *)
(***************************************************************************)
EXTENDS Integers, Sequences, FiniteSets, TLC

VARIABLES
    pc,          \* position of the caller
    item,        \* the text matched against
    query,       \* the query string
    strategy,    \* the strategy of the call, "none" before it
    result,      \* what matchesFuzzily returned
    oneOff,      \* what fuzzyMatch returned
    collection,  \* the collection a searcher was built over
    results,     \* what the searcher returned
    loop         \* the loop state of smartFuzzyMatch

vars == <<pc, item, query, strategy, result, oneOff, collection, results, loop>>

(***************************************************************************)
(* Bounds of the model.                                                    *)
(***************************************************************************)
MaxItemLen == 3
MaxQueryLen == 3

Alphabet == {"a", "b", "A", " ", "-"}

Strategies == {"off", "smart", "aggressive"}

(***************************************************************************)
(* JavaScript values and string primitives.                                *)
(***************************************************************************)
Undefined == "undefined"

Min(S) == CHOOSE x \in S : \A y \in S : x <= y

MinOf(a, b) == IF a <= b THEN a ELSE b

StringsUpTo(A, n) == UNION {[1..k -> A] : k \in 0..n}

CharAt(s, i) == IF i >= 0 /\ i < Len(s) THEN s[i + 1] ELSE Undefined

Clamp(i, n) == IF i < 0 THEN 0 ELSE IF i > n THEN n ELSE i

slice(s, from, to) == SubSeq(s, Clamp(from, Len(s)) + 1, Clamp(to, Len(s)))

\* String(x) of a search argument: undefined is searched as the text "undefined"
ToSearchString(x) ==
    IF x = Undefined THEN <<"u", "n", "d", "e", "f", "i", "n", "e", "d">> ELSE <<x>>

indexOf(s, sub, from) ==
    LET start == Clamp(from, Len(s))
        hits == {i \in start..(Len(s) - Len(sub)) : SubSeq(s, i + 1, i + Len(sub)) = sub}
    IN IF hits = {} THEN -1 ELSE Min(hits)

startsWith(s, prefix) ==
    Len(prefix) <= Len(s) /\ SubSeq(s, 1, Len(prefix)) = prefix

RECURSIVE split(_)
split(s) ==
    LET i == indexOf(s, <<" ">>, 0)
    IN IF i = -1 THEN <<s>>
       ELSE <<SubSeq(s, 1, i)>> \o split(SubSeq(s, i + 2, Len(s)))

ToSet(seq) == {seq[i] : i \in 1..Len(seq)}

(***************************************************************************)
(* normalizeText                                                           *)
(***************************************************************************)
toLowerCase(c) ==
    CASE c = "A" -> "a"
      [] c = "B" -> "b"
      [] c = "E_ACUTE" -> "e_acute"
      [] c = "L_STROKE" -> "l_stroke"
      [] c = "N_TILDE" -> "n_tilde"
      [] OTHER -> c

\* canonical decomposition of one character
NFD(c) ==
    CASE c = "e_acute" -> <<"e", "COMBINING_ACUTE">>
      [] c = "n_tilde" -> <<"n", "COMBINING_TILDE">>
      [] OTHER -> <<c>>

diacritics == {"COMBINING_ACUTE", "COMBINING_TILDE"}

Whitespace == {" "}

RECURSIVE trimStart(_)
trimStart(s) ==
    IF s # <<>> /\ Head(s) \in Whitespace THEN trimStart(Tail(s)) ELSE s

RECURSIVE trimEnd(_)
trimEnd(s) ==
    IF s # <<>> /\ s[Len(s)] \in Whitespace THEN trimEnd(SubSeq(s, 1, Len(s) - 1)) ELSE s

trim(s) == trimEnd(trimStart(s))

NormalizeChar(c) ==
    LET stripped == SelectSeq(NFD(toLowerCase(c)), LAMBDA d : d \notin diacritics)
    IN [i \in 1..Len(stripped) |->
           CASE stripped[i] = "l_stroke" -> "l"
             [] stripped[i] = "n_tilde" -> "n"
             [] OTHER -> stripped[i]]

RECURSIVE NormalizeChars(_)
NormalizeChars(s) ==
    IF s = <<>> THEN <<>> ELSE NormalizeChar(Head(s)) \o NormalizeChars(Tail(s))

normalizeText(str) == trim(NormalizeChars(str))

(***************************************************************************)
(* Results.  A match result is [score, ranges]; null is NoMatch.  A range  *)
(* is the pair <<start, end>>, both inclusive.                             *)
(***************************************************************************)
NoMatch == [matched |-> FALSE, score |-> -1, ranges |-> <<>>]

Matched(s, r) == [matched |-> TRUE, score |-> s, ranges |-> r]

validWordBoundaries ==
    {" ", "[", "]", "(", ")", "-", "EN_DASH", "EM_DASH", "'", "\""}

isValidWordBoundary(char) == char \in validWordBoundaries

(***************************************************************************)
(* scoreConsecutiveLetters                                                 *)
(***************************************************************************)
ChunkPenalty(chunk, normalizedItem) ==
    LET firstIdx == chunk[1]
        lastIdx == chunk[2]
        chunkLength == lastIdx - firstIdx + 1
        isStartOfWord == firstIdx = 0 \/ CharAt(normalizedItem, firstIdx - 1) = " "
        isEndOfWord == lastIdx = Len(normalizedItem) - 1
                       \/ CharAt(normalizedItem, lastIdx + 1) = " "
    IN IF isStartOfWord /\ isEndOfWord THEN 2
       ELSE IF isStartOfWord THEN 4
       ELSE IF chunkLength >= 3 THEN 8
       ELSE 16

RECURSIVE SumPenalties(_, _)
SumPenalties(chunks, normalizedItem) ==
    IF chunks = <<>> THEN 0
    ELSE ChunkPenalty(Head(chunks), normalizedItem)
         + SumPenalties(Tail(chunks), normalizedItem)

scoreConsecutiveLetters(chunks, normalizedItem) ==
    Matched(20 + SumPenalties(chunks, normalizedItem), chunks)

(***************************************************************************)
(* aggressiveFuzzyMatch: one left-to-right pass over the item.             *)
(***************************************************************************)
RECURSIVE AggressiveLoop(_, _, _, _, _, _, _)
AggressiveLoop(normalizedItem, normalizedQuery, itemIdx, qIdx, first, last, acc) ==
    IF itemIdx >= Len(normalizedItem) THEN NoMatch
    ELSE IF CharAt(normalizedItem, itemIdx) = CharAt(normalizedQuery, qIdx)
    THEN LET newChunk == itemIdx # last + 1
             acc1 == IF newChunk /\ first >= 0 THEN Append(acc, <<first, last>>) ELSE acc
             first1 == IF newChunk THEN itemIdx ELSE first
         IN IF qIdx + 1 = Len(normalizedQuery)
            THEN scoreConsecutiveLetters(Append(acc1, <<first1, itemIdx>>), normalizedItem)
            ELSE AggressiveLoop(normalizedItem, normalizedQuery, itemIdx + 1, qIdx + 1,
                                first1, itemIdx, acc1)
    ELSE AggressiveLoop(normalizedItem, normalizedQuery, itemIdx + 1, qIdx, first, last, acc)

aggressiveFuzzyMatch(normalizedItem, normalizedQuery) ==
    AggressiveLoop(normalizedItem, normalizedQuery, 0, 0, -1, -2, <<>>)

(***************************************************************************)
(* smartFuzzyMatch.  SmartStep is one iteration of the while (true) loop   *)
(* on the loop state st = [queryIdx, chunkFirstIdx, chunkLastIdx, indices, *)
(* done, ret].                                                             *)
(***************************************************************************)
SmartInit ==
    [queryIdx |-> 0, chunkFirstIdx |-> -1, chunkLastIdx |-> -2, indices |-> <<>>,
     done |-> FALSE, ret |-> NoMatch]

\* the inner for loop: how many item characters from i on equal the query from q on
RECURSIVE RunLength(_, _, _, _)
RunLength(normalizedItem, normalizedQuery, i, q) ==
    IF i < Len(normalizedItem) /\ CharAt(normalizedItem, i) = CharAt(normalizedQuery, q)
    THEN 1 + RunLength(normalizedItem, normalizedQuery, i + 1, q + 1)
    ELSE 0

\* a candidate that is neither at a boundary nor confirmed by the lookahead
SmartRejectNoAdvance(st) == st

SmartReject(st) == [st EXCEPT !.chunkLastIdx = st.chunkLastIdx + 1]

SmartAcceptAt(normalizedItem, normalizedQuery, st, idx) ==
    LET n == RunLength(normalizedItem, normalizedQuery, idx, st.queryIdx)
        qIdx == st.queryIdx + n
        last == idx + n - 1
        pushed == Append(st.indices, <<idx, last>>)
    IN [queryIdx |-> qIdx, chunkFirstIdx |-> idx, chunkLastIdx |-> last,
        indices |-> pushed,
        done |-> qIdx = Len(normalizedQuery),
        ret |-> IF qIdx = Len(normalizedQuery)
                THEN scoreConsecutiveLetters(pushed, normalizedItem) ELSE NoMatch]

SmartStep(normalizedItem, normalizedQuery, st) ==
    LET queryChar == CharAt(normalizedQuery, st.queryIdx)
        idx == indexOf(normalizedItem, ToSearchString(queryChar), st.chunkLastIdx + 1)
        queryCharsLeft == Len(normalizedQuery) - st.queryIdx
        itemCharsLeft == Len(normalizedItem) - idx
        minChunkLen == MinOf(3, MinOf(queryCharsLeft, itemCharsLeft))
        minQueryChunk == slice(normalizedQuery, st.queryIdx, st.queryIdx + minChunkLen)
    IN IF idx = -1 THEN [st EXCEPT !.done = TRUE, !.ret = NoMatch]
       ELSE IF idx = 0 \/ isValidWordBoundary(CharAt(normalizedItem, idx - 1))
       THEN SmartAcceptAt(normalizedItem, normalizedQuery, st, idx)
       ELSE IF slice(normalizedItem, idx, idx + minChunkLen) = minQueryChunk
       THEN SmartAcceptAt(normalizedItem, normalizedQuery, st, idx)
       ELSE SmartReject(st)

RECURSIVE SmartLoop(_, _, _)
SmartLoop(normalizedItem, normalizedQuery, st) ==
    IF st.done THEN st.ret
    ELSE SmartLoop(normalizedItem, normalizedQuery,
                   SmartStep(normalizedItem, normalizedQuery, st))

smartFuzzyMatch(normalizedItem, normalizedQuery) ==
    SmartLoop(normalizedItem, normalizedQuery, SmartInit)

(***************************************************************************)
(* Array.prototype.sort with a comparator (stable).  The comparator is     *)
(* given by its name.                                                      *)
(***************************************************************************)
sortByScoreDescending(a, b) == b.score - a.score

sortByScore(a, b) == a.score - b.score

sortRangeTuple(a, b) == a[1] - b[1]

Compare(cmp, a, b) ==
    IF cmp = "sortByScore" THEN sortByScore(a, b) ELSE sortRangeTuple(a, b)

RECURSIVE InsertSorted(_, _, _)
InsertSorted(cmp, sorted, x) ==
    IF sorted = <<>> THEN <<x>>
    ELSE IF Compare(cmp, Head(sorted), x) <= 0
    THEN <<Head(sorted)>> \o InsertSorted(cmp, Tail(sorted), x)
    ELSE <<x>> \o sorted

RECURSIVE SortFrom(_, _, _)
SortFrom(cmp, sorted, rest) ==
    IF rest = <<>> THEN sorted
    ELSE SortFrom(cmp, InsertSorted(cmp, sorted, Head(rest)), Tail(rest))

sort(seq, cmp) == SortFrom(cmp, <<>>, seq)

(***************************************************************************)
(* matchesFuzzily                                                          *)
(***************************************************************************)
\* the score of the multi-word tier, 1.5 + queryWords.length * 0.2
MultiWordScoreOffByOne(queryWords) == 15 + (Len(queryWords) - 1) * 2

MultiWordScore(queryWords) == 15 + Len(queryWords) * 2

MultiWordRanges(normalizedItem, queryWords) ==
    sort([k \in 1..Len(queryWords) |->
             LET i == indexOf(normalizedItem, queryWords[k], 0)
             IN <<i, i + Len(queryWords[k]) - 1>>],
         "sortRangeTuple")

FuzzyDispatch(normalizedItem, normalizedQuery, strat) ==
    IF strat = "aggressive" THEN aggressiveFuzzyMatch(normalizedItem, normalizedQuery)
    ELSE IF strat = "smart" THEN smartFuzzyMatch(normalizedItem, normalizedQuery)
    ELSE NoMatch

\* the tiers below the prefix tier
LowerTiers(it, normalizedItem, itemWords, q, normalizedQuery, queryWords, strat) ==
    LET queryLen == Len(q)
        exactContainsIdx == indexOf(it, q, 0)
        containsIdx == indexOf(normalizedItem, normalizedQuery, 0)
    IN IF exactContainsIdx > -1 /\ isValidWordBoundary(CharAt(it, exactContainsIdx - 1))
       THEN Matched(9, <<<<exactContainsIdx, exactContainsIdx + queryLen - 1>>>>)
       ELSE IF containsIdx > -1 /\ isValidWordBoundary(CharAt(normalizedItem, containsIdx - 1))
       THEN Matched(10, <<<<containsIdx, containsIdx + queryLen - 1>>>>)
       ELSE IF Len(queryWords) > 1 /\ \A k \in 1..Len(queryWords) : queryWords[k] \in itemWords
       THEN Matched(MultiWordScore(queryWords), MultiWordRanges(normalizedItem, queryWords))
       ELSE IF containsIdx > -1
       THEN Matched(20, <<<<containsIdx, containsIdx + queryLen - 1>>>>)
       ELSE FuzzyDispatch(normalizedItem, normalizedQuery, strat)

\* the prefix tier tried before the normalized-equality tier
matchesFuzzilyPrefixFirst(it, normalizedItem, itemWords, q, normalizedQuery, queryWords, strat) ==
    IF it = q THEN Matched(0, <<<<0, Len(it) - 1>>>>)
    ELSE IF startsWith(normalizedItem, normalizedQuery)
    THEN Matched(5, <<<<0, Len(normalizedQuery) - 1>>>>)
    ELSE IF normalizedItem = normalizedQuery
    THEN Matched(1, <<<<0, Len(normalizedItem) - 1>>>>)
    ELSE LowerTiers(it, normalizedItem, itemWords, q, normalizedQuery, queryWords, strat)

\* the prefix test with its receiver and argument exchanged
matchesFuzzilySwappedPrefix(it, normalizedItem, itemWords, q, normalizedQuery, queryWords, strat) ==
    IF it = q THEN Matched(0, <<<<0, Len(it) - 1>>>>)
    ELSE IF normalizedItem = normalizedQuery
    THEN Matched(1, <<<<0, Len(normalizedItem) - 1>>>>)
    ELSE IF startsWith(normalizedQuery, normalizedItem)
    THEN Matched(5, <<<<0, Len(normalizedQuery) - 1>>>>)
    ELSE LowerTiers(it, normalizedItem, itemWords, q, normalizedQuery, queryWords, strat)

matchesFuzzily(it, normalizedItem, itemWords, q, normalizedQuery, queryWords, strat) ==
    IF it = q THEN Matched(0, <<<<0, Len(it) - 1>>>>)
    ELSE IF normalizedItem = normalizedQuery
    THEN Matched(1, <<<<0, Len(normalizedItem) - 1>>>>)
    ELSE IF startsWith(normalizedItem, normalizedQuery)
    THEN Matched(5, <<<<0, Len(normalizedQuery) - 1>>>>)
    ELSE LowerTiers(it, normalizedItem, itemWords, q, normalizedQuery, queryWords, strat)

\* matchesFuzzily on the normalized forms its two callers derive
MatchField(it, q, strat) ==
    LET normalizedQuery == normalizeText(q)
        normalizedItem == normalizeText(it)
    IN matchesFuzzily(it, normalizedItem, ToSet(split(normalizedItem)),
                      q, normalizedQuery, split(normalizedQuery), strat)

(***************************************************************************)
(* fuzzyMatch: the one-off match, always with the smart strategy.          *)
(***************************************************************************)
\* an entry of FuzzyMatches: the ranges of a field, or null
NullEntry == [isNull |-> TRUE, ranges |-> <<>>]

Entry(ranges) == [isNull |-> FALSE, ranges |-> ranges]

NoResult == [found |-> FALSE, item |-> <<>>, score |-> -1, matches |-> <<>>]

fuzzyMatch(text, q) ==
    LET res == MatchField(text, q, "smart")
    IN IF res.matched
       THEN [found |-> TRUE, item |-> text, score |-> res.score,
             matches |-> <<Entry(res.ranges)>>]
       ELSE NoResult

(***************************************************************************)
(* createFuzzySearch.  An element of the collection is the list of texts   *)
(* its accessor (getText, key, or the element itself) yields; a text may   *)
(* be null.                                                                *)
(***************************************************************************)
NullText == <<"null">>

\* stands for Number.MAX_SAFE_INTEGER: above every score
MAX_SAFE_INTEGER == 2147483647

\* text || ""
TextOrEmpty(text) == IF text = NullText THEN <<>> ELSE text

preprocess(coll) ==
    [e \in 1..Len(coll) |->
        [element |-> coll[e],
         processed |-> [f \in 1..Len(coll[e]) |->
             LET it == TextOrEmpty(coll[e][f])
                 normalized == normalizeText(it)
             IN [item |-> it, normalized |-> normalized,
                 words |-> ToSet(split(normalized))]]]]

\* the loop over the fields of one element: bestScore after the first n fields
RECURSIVE BestScore(_, _)
BestScore(fieldResults, n) ==
    IF n = 0 THEN MAX_SAFE_INTEGER
    ELSE IF fieldResults[n].matched
    THEN MinOf(BestScore(fieldResults, n - 1), fieldResults[n].score)
    ELSE BestScore(fieldResults, n - 1)

FieldResults(texts, q, normalizedQuery, queryWords, strat) ==
    [f \in 1..Len(texts) |->
        matchesFuzzily(texts[f].item, texts[f].normalized, texts[f].words,
                       q, normalizedQuery, queryWords, strat)]

\* the body of the loop over the elements: the results with this element added
SearchElement(acc, entry, q, normalizedQuery, queryWords, strat) ==
    LET fieldResults == FieldResults(entry.processed, q, normalizedQuery, queryWords, strat)
        bestScore == BestScore(fieldResults, Len(fieldResults))
        matches == [f \in 1..Len(fieldResults) |->
                       IF fieldResults[f].matched
                       THEN Entry(fieldResults[f].ranges) ELSE NullEntry]
    IN IF bestScore < MAX_SAFE_INTEGER
       THEN Append(acc, [item |-> entry.element, score |-> bestScore, matches |-> matches])
       ELSE acc

RECURSIVE SearchLoop(_, _, _, _, _, _)
SearchLoop(acc, preprocessed, q, normalizedQuery, queryWords, strat) ==
    IF preprocessed = <<>> THEN acc
    ELSE SearchLoop(SearchElement(acc, Head(preprocessed), q, normalizedQuery,
                                  queryWords, strat),
                    Tail(preprocessed), q, normalizedQuery, queryWords, strat)

\* the function createFuzzySearch returns
searcher(preprocessed, strat, q) ==
    LET normalizedQuery == normalizeText(q)
        queryWords == split(normalizedQuery)
    IN IF Len(normalizedQuery) = 0 THEN <<>>
       ELSE sort(SearchLoop(<<>>, preprocessed, q, normalizedQuery, queryWords, strat),
                 "sortByScore")

(***************************************************************************)
(* Spec: matchesFuzzily and fuzzyMatch applied to every text and query.    *)
(***************************************************************************)
Texts == StringsUpTo(Alphabet, MaxItemLen)

Queries == StringsUpTo(Alphabet, MaxQueryLen)

Init ==
    /\ pc = "ready"
    /\ item \in Texts
    /\ query \in Queries
    /\ strategy = "none"
    /\ result = NoMatch
    /\ oneOff = NoResult
    /\ collection = <<>>
    /\ results = <<>>
    /\ loop = SmartInit

\* matchesFuzzily as the searcher calls it for one field: any strategy, and a
\* query that is not empty once normalized (index.ts:251)
CallMatchesFuzzily ==
    /\ pc = "ready"
    /\ normalizeText(query) # <<>>
    /\ \E strat \in Strategies :
          /\ strategy' = strat
          /\ result' = MatchField(item, query, strat)
    /\ pc' = "matched"
    /\ UNCHANGED <<item, query, oneOff, collection, results, loop>>

CallFuzzyMatch ==
    /\ pc = "ready"
    /\ strategy' = "smart"
    /\ result' = MatchField(item, query, "smart")
    /\ oneOff' = fuzzyMatch(item, query)
    /\ pc' = "oneoff"
    /\ UNCHANGED <<item, query, collection, results, loop>>

Next == CallMatchesFuzzily \/ CallFuzzyMatch

Spec == Init /\ [][Next]_vars

(***************************************************************************)
(* SpecSearch: a searcher is built over a collection and called.           *)
(***************************************************************************)
MaxItems == 2

\* the elements a collection is made of, each given by the texts of its fields
Elements ==
    { <<<<"a", "b">>>>,
      <<<<"b", " ", "a">>>>,
      <<<<"A", "-", "b">>>>,
      <<NullText>>,
      <<NullText, <<"b", "a">>>>,
      <<<<"a", " ", "b">>, NullText>>,
      <<<<>>, <<"a">>>>,
      <<>> }

Collections == StringsUpTo(Elements, MaxItems)

SearchAlphabet == {"a", "b", " "}

SearchQueries == StringsUpTo(SearchAlphabet, MaxQueryLen)

InitSearch ==
    /\ pc = "start"
    /\ item = <<>>
    /\ query = <<>>
    /\ strategy = "none"
    /\ result = NoMatch
    /\ oneOff = NoResult
    /\ collection = <<>>
    /\ results = <<>>
    /\ loop = SmartInit

CreateFuzzySearch ==
    /\ pc = "start"
    /\ \E coll \in Collections, strat \in Strategies :
          /\ collection' = preprocess(coll)
          /\ strategy' = strat
    /\ pc' = "built"
    /\ UNCHANGED <<item, query, result, oneOff, results, loop>>

Search ==
    /\ pc = "built"
    /\ \E q \in SearchQueries :
          /\ query' = q
          /\ results' = searcher(collection, strategy, q)
    /\ pc' = "searched"
    /\ UNCHANGED <<item, strategy, result, oneOff, collection, loop>>

NextSearch == CreateFuzzySearch \/ Search

SpecSearch == InitSearch /\ [][NextSearch]_vars

(***************************************************************************)
(* SpecSmart: smartFuzzyMatch run one loop iteration at a time.            *)
(***************************************************************************)
NormalizedTexts == {normalizeText(t) : t \in Texts}

NormalizedQueries == {normalizeText(q) : q \in Queries} \ {<<>>}

InitSmart ==
    /\ pc = "loop"
    /\ item \in NormalizedTexts
    /\ query \in NormalizedQueries
    /\ strategy = "smart"
    /\ result = NoMatch
    /\ oneOff = NoResult
    /\ collection = <<>>
    /\ results = <<>>
    /\ loop = SmartInit

SmartIterate ==
    /\ pc = "loop"
    /\ ~loop.done
    /\ loop' = SmartStep(item, query, loop)
    /\ UNCHANGED <<pc, item, query, strategy, result, oneOff, collection, results>>

SmartReturn ==
    /\ pc = "loop"
    /\ loop.done
    /\ result' = loop.ret
    /\ pc' = "returned"
    /\ UNCHANGED <<item, query, strategy, oneOff, collection, results, loop>>

NextSmart == SmartIterate \/ SmartReturn

SpecSmart == InitSmart /\ [][NextSmart]_vars /\ WF_vars(SmartIterate) /\ WF_vars(SmartReturn)

(***************************************************************************)
(* The claims.                                                             *)
(***************************************************************************)
Called == pc \in {"matched", "oneoff"}

nItem == normalizeText(item)

nQuery == normalizeText(query)

\* some character precedes index i of s, and it is a boundary character
PrecededByBoundary(s, i) == i >= 1 /\ s[i] \in validWordBoundaries

\* the number of the first tier of the scoring table that applies
ClaimTier ==
    LET ni == nItem
        nq == nQuery
        e == indexOf(item, query, 0)
        c == indexOf(ni, nq, 0)
        w == split(nq)
    IN IF item = query THEN 1
       ELSE IF ni = nq THEN 2
       ELSE IF startsWith(ni, nq) THEN 3
       ELSE IF e > -1 /\ PrecededByBoundary(item, e) THEN 4
       ELSE IF c > -1 /\ PrecededByBoundary(ni, c) THEN 5
       ELSE IF Len(w) >= 2 /\ ToSet(w) \subseteq ToSet(split(ni)) THEN 6
       ELSE IF c > -1 THEN 7
       ELSE 8

ClaimTierScore(t) ==
    CASE t = 1 -> 0
      [] t = 2 -> 1
      [] t = 3 -> 5
      [] t = 4 -> 9
      [] t = 5 -> 10
      [] t = 6 -> 15 + 2 * Len(split(nQuery))
      [] t = 7 -> 20

MultiWordCase ==
    /\ Called
    /\ Len(split(nQuery)) >= 2
    /\ \A k \in 1..Len(split(nQuery)) : split(nQuery)[k] \in ToSet(split(nItem))

\* C4 as stated: whenever the query has n >= 2 words that are all words of the
\* item, the score is 1.5 + 0.2n.
C4_MultiWordScoreAlways ==
    MultiWordCase => result.score = 15 + 2 * Len(split(nQuery))

\* C4 amended: when the query has n >= 2 words that are all words of the item
\* and none of the five earlier tiers applies, the score is 1.5 + 0.2n, whatever
\* the order of the words.
C4_MultiWordScore ==
    (MultiWordCase /\ ClaimTier = 6) =>
        result.matched /\ result.score = 15 + 2 * Len(split(nQuery))

\* the words of the query are those of the item in another order
C4_Witness ==
    /\ MultiWordCase
    /\ ClaimTier = 6
    /\ split(nQuery) # split(nItem)
    /\ ToSet(split(nQuery)) = ToSet(split(nItem))
    /\ result.score = 19

\* C3: with the smart strategy every chunk shorter than 3 of a fuzzy-tier result
\* starts at index 0 or right after a boundary character.
C3_ShortChunksAtBoundary ==
    (Called /\ strategy = "smart" /\ ClaimTier = 8 /\ result.matched) =>
        \A k \in 1..Len(result.ranges) :
            LET first == result.ranges[k][1]
                last == result.ranges[k][2]
            IN last - first + 1 < 3 => first = 0 \/ PrecededByBoundary(nItem, first)

\* C5: the ranges of a match result are pairwise non-overlapping and in
\* ascending order of start.
C5_RangesDisjointAscending ==
    (Called /\ result.matched) =>
        \A i, j \in 1..Len(result.ranges) :
            i < j => /\ result.ranges[i][1] <= result.ranges[j][1]
                     /\ result.ranges[i][2] < result.ranges[j][1]

\* C6: fuzzyMatch returns null whenever the query is empty once normalized.
C6_EmptyQueryNoResult ==
    (pc = "oneoff" /\ nQuery = <<>>) => ~oneOff.found

\* the penalty of a chunk when a word boundary is any boundary character
ClaimPenalty(chunk) ==
    LET first == chunk[1]
        last == chunk[2]
        startsWord == first = 0 \/ PrecededByBoundary(nItem, first)
        endsWord == last = Len(nItem) - 1
                    \/ (last + 2 <= Len(nItem) /\ nItem[last + 2] \in validWordBoundaries)
    IN IF startsWord /\ endsWord THEN 2
       ELSE IF startsWord THEN 4
       ELSE IF last - first + 1 >= 3 THEN 8
       ELSE 16

RECURSIVE ClaimPenalties(_)
ClaimPenalties(chunks) ==
    IF chunks = <<>> THEN 0 ELSE ClaimPenalty(Head(chunks)) + ClaimPenalties(Tail(chunks))

\* C8: the fuzzy score is 2.0 plus 0.2, 0.4, 0.8 or 1.6 per chunk, where the
\* start and the end of a word are marked by any boundary character.
C8_ScoreUsesBoundarySet ==
    (Called /\ ClaimTier = 8 /\ result.matched) =>
        result.score = 20 + ClaimPenalties(result.ranges)

\* C9: for a query that is not empty once normalized, every range of a result
\* is a pair of valid indices into the original item (scores 0 and 0.9) or
\* into the normalized item (every other tier).
C9_RangesValid ==
    (Called /\ nQuery # <<>> /\ result.matched) =>
        \A k \in 1..Len(result.ranges) :
            LET len == IF result.score \in {0, 9} THEN Len(item) ELSE Len(nItem)
            IN /\ 0 <= result.ranges[k][1]
               /\ result.ranges[k][1] <= result.ranges[k][2]
               /\ result.ranges[k][2] <= len - 1

\* C2: the list a searcher returns is non-decreasing in score.
C2_SortedByScore ==
    pc = "searched" =>
        \A i, j \in 1..Len(results) : i < j => results[i].score <= results[j].score

\* two elements matched and came out in the reverse of their collection order
C2_Witness ==
    /\ pc = "searched"
    /\ Len(collection) = 2
    /\ Len(results) = 2
    /\ results[1].item = collection[2].element
    /\ results[2].item = collection[1].element
    /\ results[1].score < results[2].score

\* C7: a null field is treated as the empty string and, for a query that is
\* not empty once normalized, never matches: its entry in matches is null, and
\* an element with no other field is not in the results.
C7_NullFieldNeverMatches ==
    /\ \A e \in 1..Len(collection) : \A f \in 1..Len(collection[e].element) :
          collection[e].element[f] = NullText =>
              /\ collection[e].processed[f].item = <<>>
              /\ collection[e].processed[f].normalized = <<>>
    /\ pc = "searched" =>
          \A k \in 1..Len(results) :
              /\ Len(results[k].matches) = Len(results[k].item)
              /\ \A f \in 1..Len(results[k].item) :
                    results[k].item[f] = NullText => results[k].matches[f].isNull
              /\ \E f \in 1..Len(results[k].item) : results[k].item[f] # NullText

\* an element with a null field is in the results through its other field
C7_Witness ==
    /\ pc = "searched"
    /\ nQuery # <<>>
    /\ \E k \in 1..Len(results) : \E f, g \in 1..Len(results[k].item) :
          /\ results[k].item[f] = NullText
          /\ results[k].matches[f].isNull
          /\ ~results[k].matches[g].isNull

\* an iteration of the loop returns, consumes query characters, or rejects the
\* candidate and advances the search position
SmartProgress ==
    SmartIterate =>
        \/ loop'.done
        \/ loop'.queryIdx > loop.queryIdx
        \/ loop'.queryIdx = loop.queryIdx /\ loop'.chunkLastIdx > loop.chunkLastIdx

\* C10: smartFuzzyMatch terminates: every iteration makes progress, and it
\* eventually returns a scored result with the query consumed, or null.
C10_SmartTerminates ==
    /\ [][SmartProgress]_vars
    /\ <>(pc = "returned" /\ (result.matched <=> loop.queryIdx = Len(query)))

\* an occurrence of the first query character was rejected, a later one was
\* accepted as a chunk, and null was returned with the query not consumed
C10_Witness ==
    /\ pc = "returned"
    /\ ~result.matched
    /\ loop.indices # <<>>
    /\ indexOf(item, <<query[1]>>, 0) < loop.indices[1][1]

====
